---- MODULE Spec2Model ----
(***************************************************************************)
(* A model of pkg/vaulttoenvs: one VaultToEnvs value, one call of          *)
(* DisplayEnvExports on it, the Vault store and the AWS identity service   *)
(* it talks to.                                                            *)
(*                                                                         *)
(* Representation.  A path string is the sequence of its "/"-separated     *)
(* segments, which is what strings.Split(path, "/") returns: "kv/app" is   *)
(* <<"kv", "app">> and the empty string is <<"">>.  An environment         *)
(* variable name and a secret value are sequences of one-character         *)
(* strings.  A Go map is a function on a finite DOMAIN; ranging over a Go  *)
(* map visits its keys in an unspecified order, which is a choice here.    *)
(* The version selector is a float64 in the code: it is kept in halves,    *)
(* Version = 3 is the JSON number 1.5.                                     *)
(***************************************************************************)
EXTENDS Integers, Sequences, FiniteSets, TLC

VARIABLES
    config,            \* the secret config document handed to the run
    secretMountTypes,  \* v.secretMountTypes: first path segment -> engine type
    secretItems,       \* v.secretItems
    method,            \* the method called: DisplayEnvExports or GetEnvs
    pc,                \* where the run is
    idx,               \* the index of the item the current loop is at
    err,               \* the error the run returned
    stdout,            \* the lines printed
    result,            \* the slice GetEnvs returned
    calls,             \* the calls made to the store, in order
    lastResp,          \* what the store answered to the latest call of the first loop
    attempts,          \* retry's attempts, of the poll under way (0: no poll)
    sleep,             \* retry's sleep, in seconds, of the poll under way (0: no poll)
    idCalls,           \* GetCallerIdentity calls made by the latest poll
    delays,            \* the time.Sleep durations of the latest poll
    lastIdentity       \* the outcome of the latest GetCallerIdentity call

vars == <<config, secretMountTypes, secretItems, method, pc, idx, err, stdout,
          result, calls, lastResp, attempts, sleep, idCalls, delays, lastIdentity>>

\* Bounds of the model.
MaxItems == 2
MaxVer == 3
\* the longest secret value handed to the exporter alone
MaxLen == 4
\* the calls of a method made on one VaultToEnvs value
MaxCalls == 2

\* retry(20, time.Second, ...)
RetryAttempts == 20
RetrySleep == 1
\* the tolerance of the lease check
Tolerance == 5

----------------------------------------------------------------------------
\* Values of the data model

NoMount == "<nil>"
StoreMounts == [kv |-> "kv", aws |-> "aws", secret |-> "generic"]

EmptyMap == [k \in {} |-> 0]

Str(chars) == [isString |-> TRUE, chars |-> chars]
NonString == [isString |-> FALSE, chars |-> <<>>]
Nil == [isString |-> FALSE, chars |-> <<"<nil>">>]

NoSecret == [Renewable |-> FALSE, LeaseID |-> "", LeaseDuration |-> 0,
             hasData |-> FALSE, Data |-> EmptyMap]

\* an error value: what the message is about (its path, key and numbers)
NoError == [kind |-> "", path |-> <<>>, key |-> "", num |-> 0, actual |-> 0]
Error(kind, path, key, num, actual) ==
    [kind |-> kind, path |-> path, key |-> key, num |-> num, actual |-> actual]

NoResp == [kind |-> "none"]

----------------------------------------------------------------------------
\* Pure helpers of the code

\* int(x) of a float64 held in halves: truncation toward zero
ToInt(v) == IF v >= 0 THEN v \div 2 ELSE -((-v) \div 2)

\* path.Join: the non-empty elements, joined (Clean drops the empty segments;
\* no segment of the model is "." or "..")
RECURSIVE PathJoin(_)
PathJoin(segs) ==
    IF segs = <<>> THEN <<>>
    ELSE IF Head(segs) = "" THEN PathJoin(Tail(segs))
    ELSE <<Head(segs)>> \o PathJoin(Tail(segs))

\* sort.Ints over the keys of the versions map
RECURSIVE SortInts(_)
SortInts(S) ==
    IF S = {} THEN <<>>
    ELSE LET m == CHOOSE x \in S : \A y \in S : x <= y
         IN <<m>> \o SortInts(S \ {m})

\* EscapeQuotes with a backslash before each single quote
RECURSIVE EscapeQuotesBackslash(_)
EscapeQuotesBackslash(chars) ==
    IF chars = <<>> THEN <<>>
    ELSE IF Head(chars) = "'"
         THEN <<"\\", "'">> \o EscapeQuotesBackslash(Tail(chars))
         ELSE <<Head(chars)>> \o EscapeQuotesBackslash(Tail(chars))

\* strings.Replace(value, "'", "'\"'\"'", -1)
RECURSIVE EscapeQuotes(_)
EscapeQuotes(chars) ==
    IF chars = <<>> THEN <<>>
    ELSE IF Head(chars) = "'"
         THEN <<"'", "\"", "'", "\"", "'">> \o EscapeQuotes(Tail(chars))
         ELSE <<Head(chars)>> \o EscapeQuotes(Tail(chars))

\* json.Unmarshal of a "set" object into map[string]string: entries in document
\* order, a later entry of the same name replacing an earlier one
RECURSIVE UnmarshalSet(_)
UnmarshalSet(entries) ==
    IF entries = <<>> THEN EmptyMap
    ELSE LET n == Len(entries)
             rest == UnmarshalSet(SubSeq(entries, 1, n - 1))
             e == entries[n]
         IN [k \in DOMAIN rest \cup {e[1]} |-> IF k = e[1] THEN e[2] ELSE rest[k]]

\* json.Unmarshal of one config object into a SecretItem
UnmarshalItem(obj) ==
    [SecretPath |-> obj.vault_path,
     TTL |-> obj.ttl,
     Version |-> obj.version,
     SecretMaps |-> UnmarshalSet(obj.set),
     secretDataPath |-> <<"">>,
     secretMetadataPath |-> <<"">>,
     effectiveVersion |-> 0,
     secretMapValues |-> EmptyMap,
     hasSecret |-> FALSE,
     secret |-> NoSecret,
     mount |-> NoMount]

UnmarshalItems(objs) == [i \in 1..Len(objs) |-> UnmarshalItem(objs[i])]

----------------------------------------------------------------------------
\* The inputs: config documents and what the store may answer

KvApp == <<"kv", "app">>
KvDataApp == <<"kv", "data", "app">>
KvOnly == <<"kv">>
AwsCreds == <<"aws", "creds">>
SecretApp == <<"secret", "app">>
Unmounted == <<"nomount", "app">>
EmptyPath == <<"">>

DbHost == <<"D", "B", "_", "H", "O", "S", "T">>
DbUser == <<"D", "B", "_", "U", "S", "E", "R">>
AwsId == <<"A", "K", "_", "I", "D">>
AwsSecret == <<"_", "s", "k", "2">>
DigitFirst == <<"1", "X">>
WithDash == <<"A", "-", "B">>

SetDb == << <<DbHost, "dbHost">> >>
SetDb2 == << <<DbUser, "dbUser">>, <<DbHost, "dbHost">> >>
SetAws == << <<AwsId, "access_key">>, <<AwsSecret, "secret_key">> >>
SetAwsHalf == << <<AwsId, "access_key">> >>
SetDigitFirst == << <<DigitFirst, "dbHost">> >>
SetWithDash == << <<DbHost, "dbHost">>, <<WithDash, "dbUser">> >>

Obj(path, ttl, version, set) ==
    [vault_path |-> path, ttl |-> ttl, version |-> version, set |-> set]

TTLs == {0, 10}
\* version selectors, in halves: -(MaxVer+1) .. 2 by steps of 1/2
Selectors == (-2 * (MaxVer + 1))..4

\* the requests a one-item document is made of
Requests ==
    {Obj(KvApp, 0, v, SetDb) : v \in Selectors}
    \cup {Obj(KvApp, 10, 0, SetDb), Obj(KvApp, 0, -2, SetDb2)}
    \cup {Obj(KvDataApp, 0, v, SetDb) : v \in {0, -2}}
    \cup {Obj(KvOnly, 0, 0, SetDb)}
    \cup {Obj(AwsCreds, t, 0, SetAws) : t \in TTLs}
    \cup {Obj(AwsCreds, 0, 0, SetAwsHalf), Obj(AwsCreds, 0, 2, SetAws)}
    \cup {Obj(SecretApp, t, 0, SetDb2) : t \in TTLs}
    \cup {Obj(SecretApp, 0, v, SetDb) : v \in {-2, 1, 2}}
    \cup {Obj(SecretApp, 0, 0, <<>>)}
    \cup {Obj(SecretApp, 0, 0, SetDigitFirst), Obj(SecretApp, 0, 0, SetWithDash)}
    \cup {Obj(Unmounted, 0, 0, SetDb), Obj(EmptyPath, 0, 0, SetDb)}

\* the requests a longer document is made of
Common ==
    {Obj(KvApp, 0, 0, SetDb), Obj(KvApp, 0, -2, SetDb),
     Obj(AwsCreds, 10, 0, SetAws), Obj(SecretApp, 0, 0, SetDb2),
     Obj(Unmounted, 0, 0, SetDb)}

RECURSIVE SeqsOf(_, _)
SeqsOf(S, n) ==
    IF n = 0 THEN {<<>>}
    ELSE {Append(s, x) : s \in SeqsOf(S, n - 1), x \in S}

Documents ==
    {<<r>> : r \in Requests}
    \cup UNION {SeqsOf(Common, n) : n \in 2..MaxItems}

Configs ==
    {[kind |-> k, objs |-> <<>>] : k \in {"none", "unreadable", "invalid"}}
    \cup {[kind |-> "items", objs |-> d] : d \in Documents}

\* secret values
Quoted == Str(<<"1", "'", "5">>)
Plain == Str(<<"u">>)
Empty == Str(<<>>)

DbData == [dbHost |-> Quoted, dbUser |-> Plain]
DbPartial == [dbUser |-> Plain]
DbNumber == [dbHost |-> NonString, dbUser |-> Plain]
AwsData == [access_key |-> Str(<<"A", "K">>), secret_key |-> Str(<<"'">>)]
AwsBlank == [access_key |-> Empty, secret_key |-> Plain]

DataMaps == {DbData, DbPartial, DbNumber, AwsData, AwsBlank}

Secret(renewable, hasData, data) ==
    [kind |-> "secret",
     secret |-> [Renewable |-> renewable,
                 LeaseID |-> IF renewable THEN "lease" ELSE "",
                 LeaseDuration |-> IF renewable THEN 30 ELSE 0,
                 hasData |-> hasData, Data |-> data]]

\* what Logical().Read answers: an error, nothing, or a secret
ReadResponses ==
    {[kind |-> "err"], [kind |-> "nil"]}
    \cup {Secret(r, TRUE, d) : r \in BOOLEAN, d \in DataMaps}

\* what Logical().ReadWithData answers on a kv mount: the payload is under "data"
ReadWithDataResponses ==
    ReadResponses \cup {Secret(r, FALSE, EmptyMap) : r \in BOOLEAN}

\* the metadata of one version
VersionData == [deletion_time : {"", "2019-07-01T00:00:00Z"}, destroyed : BOOLEAN]

\* what the metadata read answers: an error, nothing, or the versions map
MetadataResponses ==
    {[kind |-> "err"], [kind |-> "nil"]}
    \cup {[kind |-> "versions", versions |-> m] :
            m \in UNION {[S -> VersionData] : S \in SUBSET (1..MaxVer)}}

\* what Sys().Renew answers: an error, or the lease with the duration granted
Granted == {4, 5, 10, 15, 16}
RenewResponses ==
    {[kind |-> "err"]} \cup {[kind |-> "lease", LeaseDuration |-> g] : g \in Granted}

\* what GetCallerIdentity answers: success, the awserr InvalidClientTokenId,
\* another awserr, or an error that is no awserr.Error
IdentityOutcomes == {"ok", "InvalidClientTokenId", "AccessDenied", "notAwsErr"}

----------------------------------------------------------------------------
\* The program

Call(op, item, path, version, lease, ttl) ==
    [op |-> op, item |-> item, path |-> path, version |-> version,
     lease |-> lease, ttl |-> ttl]

Init ==
    /\ config \in Configs
    /\ secretMountTypes = EmptyMap
    /\ secretItems = <<>>
    /\ method \in {"DisplayEnvExports", "GetEnvs"}
    /\ pc = "idle"
    /\ idx = 0
    /\ err = NoError
    /\ stdout = <<>>
    /\ result = <<>>
    /\ calls = <<>>
    /\ lastResp = NoResp
    /\ attempts = 0
    /\ sleep = 0
    /\ idCalls = 0
    /\ delays = <<>>
    /\ lastIdentity = "none"

\* return an error: the run is over
Fail(e) ==
    /\ pc' = "error"
    /\ err' = e

\* a runtime panic: the run is over, nothing is returned
Panic ==
    /\ pc' = "panic"
    /\ err' = NoError

\* loadSecrets, lines 85-136: the client, the mounts, the config document
LoadSecrets ==
    /\ pc = "idle"
    /\ UNCHANGED <<config, method, stdout, result, lastResp, attempts, sleep,
                   idCalls, delays, lastIdentity>>
    /\ \E answer \in {"clientErr", "mountsErr", "mounts"} :
        \/ /\ answer = "clientErr"
           /\ Fail(Error("NewClient", <<>>, "", 0, 0))
           /\ UNCHANGED <<secretMountTypes, secretItems, idx, calls>>
        \/ /\ answer = "mountsErr"
           /\ calls' = Append(calls, Call("ListMounts", 0, <<>>, 0, "", 0))
           /\ Fail(Error("ListMounts", <<>>, "", 0, 0))
           /\ UNCHANGED <<secretMountTypes, secretItems, idx>>
        \/ /\ answer = "mounts"
           /\ calls' = Append(calls, Call("ListMounts", 0, <<>>, 0, "", 0))
           /\ secretMountTypes' = StoreMounts
           /\ IF config.kind = "unreadable"
              THEN /\ Fail(Error("ConfigFile", <<>>, "", 0, 0))
                   /\ UNCHANGED <<secretItems, idx>>
              ELSE IF config.kind = "invalid"
              THEN /\ Fail(Error("ConfigParse", <<>>, "", 0, 0))
                   /\ UNCHANGED <<secretItems, idx>>
              ELSE /\ secretItems' = secretItems \o UnmarshalItems(config.objs)
                   /\ pc' = "fetch"
                   /\ idx' = 1
                   /\ UNCHANGED err

\* v.secretMountTypes[pathParts[0]+"/"]: nil when the map has no such key
MountOf(path) ==
    IF path[1] \in DOMAIN secretMountTypes THEN secretMountTypes[path[1]]
    ELSE NoMount

\* GetKV2Secret, lines 290-296: the data and metadata paths
DataPath(path) ==
    IF path[2] # "data" THEN PathJoin(<<path[1], "data">> \o Tail(path))
    ELSE path

MetadataPath(path) == PathJoin(<<path[1], "metadata">> \o Tail(path))

\* IsPinned with selector 0 sent to the metadata walk
IsPinnedPositive(version) == version > 0

\* GetKV2Secret, line 299: the selector names the version itself
IsPinned(version) == version >= 0

\* VersionSpecified after int(): a selector below 1 in size passes for none
VersionSpecifiedWhole(version) == ToInt(version) # 0

\* getSecret, line 187: a version is set on the request
VersionSpecified(version) == version # 0

\* GetKV2Secret, lines 323-351: from offset i, the first version that is neither
\* deleted nor destroyed ("found"); "notFound" when the bounds check of line 329
\* stops the walk, "outOfRange" when keys[len(keys)-1+i] is no element of keys
Walked(status, version) == [status |-> status, version |-> version]

\* FindVersion with offset -1 taken for the newest version
RECURSIVE FindVersionFromNewest(_, _, _)
FindVersionFromNewest(keys, versionResults, i) ==
    IF i < (-1) * Len(keys) THEN Walked("notFound", 0)
    ELSE IF Len(keys) + i + 1 \notin 1..Len(keys) THEN Walked("outOfRange", 0)
    ELSE LET currentVersion == keys[Len(keys) + i + 1]
             versionData == versionResults[currentVersion]
         IN IF versionData.deletion_time # "" \/ versionData.destroyed
            THEN FindVersionFromNewest(keys, versionResults, i - 1)
            ELSE Walked("found", currentVersion)

\* FindVersion that skips the destroyed versions only
RECURSIVE FindVersionNotDestroyed(_, _, _)
FindVersionNotDestroyed(keys, versionResults, i) ==
    IF i < (-1) * Len(keys) + 1 THEN Walked("notFound", 0)
    ELSE IF Len(keys) + i \notin 1..Len(keys) THEN Walked("outOfRange", 0)
    ELSE LET currentVersion == keys[Len(keys) + i]
             versionData == versionResults[currentVersion]
         IN IF versionData.destroyed
            THEN FindVersionNotDestroyed(keys, versionResults, i - 1)
            ELSE Walked("found", currentVersion)

\* FindVersion with the bounds check one index late
RECURSIVE FindVersionLateCheck(_, _, _)
FindVersionLateCheck(keys, versionResults, i) ==
    IF i < (-1) * Len(keys) THEN Walked("notFound", 0)
    ELSE IF Len(keys) + i \notin 1..Len(keys) THEN Walked("outOfRange", 0)
    ELSE LET currentVersion == keys[Len(keys) + i]
             versionData == versionResults[currentVersion]
         IN IF versionData.deletion_time # "" \/ versionData.destroyed
            THEN FindVersionLateCheck(keys, versionResults, i - 1)
            ELSE Walked("found", currentVersion)

RECURSIVE FindVersion(_, _, _)
FindVersion(keys, versionResults, i) ==
    IF i < (-1) * Len(keys) + 1 THEN Walked("notFound", 0)
    ELSE IF Len(keys) + i \notin 1..Len(keys) THEN Walked("outOfRange", 0)
    ELSE LET currentVersion == keys[Len(keys) + i]
             versionData == versionResults[currentVersion]
         IN IF versionData.deletion_time # "" \/ versionData.destroyed
            THEN FindVersion(keys, versionResults, i - 1)
            ELSE Walked("found", currentVersion)

\* LeaseCheck without the test of Renewable: a TTL is always renewed
LeaseCheckAnySecret(item, secret) ==
    IF item.TTL = 0 /\ secret.Renewable THEN "log"
    ELSE IF item.TTL # 0 THEN "renew"
    ELSE "none"

\* LeaseCheck that renews every renewable secret, a TTL set or not
LeaseCheckAnyTTL(item, secret) ==
    IF item.TTL # 0 /\ ~secret.Renewable THEN "error"
    ELSE IF secret.Renewable THEN "renew"
    ELSE "none"

\* getSecret, lines 220-239: what the lease check does before any renewal
LeaseCheck(item, secret) ==
    IF item.TTL # 0 /\ ~secret.Renewable THEN "error"
    ELSE IF item.TTL = 0 /\ secret.Renewable THEN "log"
    ELSE IF item.TTL # 0 THEN "renew"
    ELSE "none"

\* WithinTolerance with the tolerance itself rejected
WithinToleranceExclusive(ttl, granted) == ~((ttl - granted) >= Tolerance)

\* getSecret, line 236: the granted duration is within tolerance
WithinTolerance(ttl, granted) == ~((ttl - granted) > Tolerance)

\* Lookup with the empty string for a key the map lacks
LookupOrEmpty(data, key) == IF key \in DOMAIN data THEN data[key] ELSE Str(<<>>)

\* data[key] of a map[string]interface{}: nil when the map lacks the key
Lookup(data, key) == IF key \in DOMAIN data THEN data[key] ELSE Nil

\* the mapping entries whose key the data lacks, and those whose value is no string
MissingKeys(item, data) ==
    {n \in DOMAIN item.SecretMaps : Lookup(data, item.SecretMaps[n]) = Nil}
NotStrings(item, data) ==
    {n \in DOMAIN item.SecretMaps :
        /\ Lookup(data, item.SecretMaps[n]) # Nil
        /\ ~Lookup(data, item.SecretMaps[n]).isString}
MapValues(item, data, names) == [n \in names |-> Lookup(data, item.SecretMaps[n]).chars]

\* ItemDone that goes to the second loop for the item just fetched
ItemDoneActivate ==
    /\ pc' = "activate"
    /\ UNCHANGED <<idx, err>>

\* the next item of the first loop
ItemDone ==
    /\ pc' = "fetch"
    /\ idx' = idx + 1
    /\ UNCHANGED err

\* lines 206-239 and 363-385, after the read: the secret is kept, the mapping is
\* ranged over (in any order, stopping at the first entry that fails), then the
\* lease is checked
AfterRead(item, resp, versioned) ==
    IF resp.kind = "err"
    THEN /\ Fail(Error("Fetch", <<>>, "", 0, 0))
         /\ UNCHANGED <<secretItems, idx>>
    ELSE IF resp.kind = "nil"
    THEN /\ Fail(Error("SecretNotFound", item.SecretPath, "", item.Version, 0))
         /\ UNCHANGED <<secretItems, idx>>
    ELSE LET secret == resp.secret
             kept == [item EXCEPT !.hasSecret = TRUE, !.secret = secret]
             bad == MissingKeys(item, secret.Data) \cup NotStrings(item, secret.Data)
             good == DOMAIN item.SecretMaps \ bad
         IN IF versioned /\ ~secret.hasData
            THEN /\ Fail(Error("NoData", item.SecretPath, "", 0, 0))
                 /\ secretItems' = [secretItems EXCEPT ![idx] = kept]
                 /\ UNCHANGED idx
            ELSE IF bad # {}
            THEN \E n \in bad, seen \in SUBSET good :
                    /\ secretItems' = [secretItems EXCEPT ![idx] =
                          [kept EXCEPT !.secretMapValues = MapValues(item, secret.Data, seen)]]
                    /\ UNCHANGED idx
                    /\ IF n \in MissingKeys(item, secret.Data)
                       THEN Fail(Error("KeyNotFound", item.SecretPath, item.SecretMaps[n], 0, 0))
                       ELSE Panic
            ELSE /\ secretItems' = [secretItems EXCEPT ![idx] =
                       [kept EXCEPT !.secretMapValues = MapValues(item, secret.Data, good)]]
                 /\ IF LeaseCheck(item, secret) = "error"
                    THEN /\ Fail(Error("TTLOnStatic", item.SecretPath, "", 0, 0))
                         /\ UNCHANGED idx
                    ELSE IF LeaseCheck(item, secret) = "renew"
                    THEN /\ pc' = "renew"
                         /\ UNCHANGED <<idx, err>>
                    ELSE ItemDone

\* NoEnvExports with a limit no mapping is under
NoEnvExportsBelowNone(item) == Cardinality(DOMAIN item.SecretMaps) < 0

\* loadSecrets, line 145: the request has no mapping entry
NoEnvExports(item) == Cardinality(DOMAIN item.SecretMaps) < 1

\* loadSecrets, lines 139-152, with getSecret and GetKV2Secret up to their first
\* call of the store
FetchNext ==
    /\ pc = "fetch"
    /\ UNCHANGED <<config, secretMountTypes, method, stdout, result, calls,
                   attempts, sleep, idCalls, delays, lastIdentity>>
    /\ IF idx > Len(secretItems)
       THEN /\ pc' = "activate"
            /\ idx' = 1
            /\ lastResp' = NoResp
            /\ UNCHANGED <<secretItems, err>>
       ELSE LET item == secretItems[idx]
                path == item.SecretPath
                mount == MountOf(path)
                classified == [item EXCEPT !.secretMapValues = EmptyMap,
                                           !.mount = mount]
            IN /\ UNCHANGED <<idx, lastResp>>
               /\ IF path = <<"">>
                  THEN /\ Fail(Error("NoPath", <<>>, "", idx, 0))
                       /\ UNCHANGED secretItems
                  ELSE IF NoEnvExports(item)
                  THEN /\ Fail(Error("NoEnvExports", path, "", 0, 0))
                       /\ UNCHANGED secretItems
                  ELSE IF mount = NoMount
                  THEN \* secretItem.mount.Type on a nil mount
                       /\ Panic
                       /\ secretItems' = [secretItems EXCEPT ![idx] = classified]
                  ELSE IF mount = "kv"
                  THEN IF Len(path) < 2
                       THEN \* pathParts[1] of a one-segment path
                            /\ Panic
                            /\ secretItems' = [secretItems EXCEPT ![idx] = classified]
                       ELSE LET pathed == [classified EXCEPT
                                              !.secretDataPath = DataPath(path),
                                              !.secretMetadataPath = MetadataPath(path)]
                            IN IF IsPinned(item.Version)
                               THEN /\ secretItems' = [secretItems EXCEPT ![idx] =
                                          [pathed EXCEPT !.effectiveVersion = ToInt(item.Version)]]
                                    /\ pc' = "readWithData"
                                    /\ UNCHANGED err
                               ELSE /\ secretItems' = [secretItems EXCEPT ![idx] = pathed]
                                    /\ pc' = "readMetadata"
                                    /\ UNCHANGED err
                  ELSE IF VersionSpecified(item.Version)
                  THEN /\ Fail(Error("VersionOnStatic", path, "", 0, 0))
                       /\ secretItems' = [secretItems EXCEPT ![idx] = classified]
                  ELSE /\ secretItems' = [secretItems EXCEPT ![idx] = classified]
                       /\ pc' = "read"
                       /\ UNCHANGED err

\* GetKV2Secret, lines 302-351: the metadata read and the choice of the version
ReadMetadata ==
    /\ pc = "readMetadata"
    /\ UNCHANGED <<config, secretMountTypes, method, stdout, result, attempts,
                   sleep, idCalls, delays, lastIdentity, idx>>
    /\ LET item == secretItems[idx]
       IN /\ calls' = Append(calls, Call("ReadMetadata", idx, item.secretMetadataPath, 0, "", 0))
          /\ \E resp \in MetadataResponses :
               /\ lastResp' = resp
               /\ IF resp.kind = "err"
                  THEN /\ Fail(Error("Fetch", <<>>, "", 0, 0))
                       /\ UNCHANGED secretItems
                  ELSE IF resp.kind = "nil"
                  THEN /\ Fail(Error("MetadataNotFound", item.secretMetadataPath, "", 0, 0))
                       /\ UNCHANGED secretItems
                  ELSE LET keys == SortInts(DOMAIN resp.versions)
                           found == FindVersion(keys, resp.versions, ToInt(item.Version))
                       IN IF found.status = "notFound"
                          THEN /\ Fail(Error("VersionNotFound", item.SecretPath, "", item.Version, 0))
                               /\ UNCHANGED secretItems
                          ELSE IF found.status = "outOfRange"
                          THEN /\ Panic
                               /\ UNCHANGED secretItems
                          ELSE /\ secretItems' = [secretItems EXCEPT ![idx].effectiveVersion = found.version]
                               /\ pc' = "readWithData"
                               /\ UNCHANGED err

\* GetKV2Secret, lines 354-385, and the lease check of getSecret
ReadWithData ==
    /\ pc = "readWithData"
    /\ UNCHANGED <<config, secretMountTypes, method, stdout, result, attempts,
                   sleep, idCalls, delays, lastIdentity>>
    /\ LET item == secretItems[idx]
       IN /\ calls' = Append(calls, Call("ReadWithData", idx, item.secretDataPath,
                                         item.effectiveVersion, "", 0))
          /\ \E resp \in ReadWithDataResponses :
               /\ lastResp' = resp
               /\ AfterRead(item, resp, TRUE)

\* getSecret, lines 197-239: the read of a secret that is not versioned
Read ==
    /\ pc = "read"
    /\ UNCHANGED <<config, secretMountTypes, method, stdout, result, attempts,
                   sleep, idCalls, delays, lastIdentity>>
    /\ LET item == secretItems[idx]
       IN /\ calls' = Append(calls, Call("Read", idx, item.SecretPath, 0, "", 0))
          /\ \E resp \in ReadResponses :
               /\ lastResp' = resp
               /\ AfterRead(item, resp, FALSE)

\* getSecret, lines 228-238: the renewal and the check of what was granted
Renew ==
    /\ pc = "renew"
    /\ UNCHANGED <<config, secretMountTypes, secretItems, method, stdout, result,
                   attempts, sleep, idCalls, delays, lastIdentity>>
    /\ LET item == secretItems[idx]
       IN /\ calls' = Append(calls, Call("Renew", idx, <<>>, 0, item.secret.LeaseID, item.TTL))
          /\ \E resp \in RenewResponses :
               /\ lastResp' = resp
               /\ IF resp.kind = "err"
                  THEN /\ Fail(Error("Renew", <<>>, "", 0, 0))
                       /\ UNCHANGED idx
                  ELSE IF ~WithinTolerance(item.TTL, resp.LeaseDuration)
                  THEN /\ Fail(Error("TTLNotMet", <<>>, "", item.TTL, resp.LeaseDuration))
                       /\ UNCHANGED idx
                  ELSE ItemDone

\* KeyValue with a value for a key no entry of the mapping names
KeyValueOrDefault(item, key) ==
    LET names == {n \in DOMAIN item.SecretMaps : item.SecretMaps[n] = key}
    IN IF names = {} THEN <<"d">>
       ELSE item.secretMapValues[CHOOSE n \in names : TRUE]

\* waitForAwsCredsToActivate, lines 391-399: the value mapped from a store key,
\* "" when no entry of the mapping names the key
KeyValue(item, key) ==
    LET names == {n \in DOMAIN item.SecretMaps : item.SecretMaps[n] = key}
    IN IF names = {} THEN <<>>
       ELSE item.secretMapValues[CHOOSE n \in names : TRUE]

\* the function retried, lines 424-435: what it returns for an outcome of
\* GetCallerIdentity: nil, an error, or an error wrapped in stop
Validate(outcome) ==
    IF outcome \in {"InvalidClientTokenId", "AccessDenied"} THEN "err" ELSE "nil"

\* Retry that asks for a second success after a success at the first call
RetryConfirms(returned, left) ==
    IF returned = "nil" THEN (IF left = RetryAttempts THEN "sleep" ELSE "return nil")
    ELSE IF returned = "stop" THEN "return err"
    ELSE IF left - 1 > 0 THEN "sleep"
    ELSE "return err"

\* Retry that gives up one attempt early
RetryGivesUpEarly(returned, left) ==
    IF returned = "nil" THEN "return nil"
    ELSE IF returned = "stop" THEN "return err"
    ELSE IF left - 1 > 1 THEN "sleep"
    ELSE "return err"

\* retry, lines 446-460: what it does with what the function returned
Retry(returned, left) ==
    IF returned = "nil" THEN "return nil"
    ELSE IF returned = "stop" THEN "return err"
    ELSE IF left - 1 > 0 THEN "sleep"
    ELSE "return err"

\* loadSecrets, lines 160-167, with waitForAwsCredsToActivate up to its first
\* call of the identity service
ActivateNext ==
    /\ pc = "activate"
    /\ UNCHANGED <<config, secretMountTypes, secretItems, method, stdout, result,
                   calls, lastResp>>
    /\ IF idx > Len(secretItems)
       THEN /\ pc' = "loaded"
            /\ UNCHANGED <<idx, err, attempts, sleep, idCalls, delays, lastIdentity>>
       ELSE LET item == secretItems[idx]
            IN IF item.mount = NoMount
               THEN /\ Panic
                    /\ UNCHANGED <<idx, attempts, sleep, idCalls, delays, lastIdentity>>
               ELSE IF item.mount # "aws"
               THEN /\ pc' = "activate"
                    /\ idx' = idx + 1
                    /\ UNCHANGED <<err, attempts, sleep, idCalls, delays, lastIdentity>>
               ELSE IF KeyValue(item, "access_key") = <<>>
               THEN /\ Fail(Error("AwsKeyNotAssigned", item.SecretPath, "access_key", 0, 0))
                    /\ UNCHANGED <<idx, attempts, sleep, idCalls, delays, lastIdentity>>
               ELSE IF KeyValue(item, "secret_key") = <<>>
               THEN /\ Fail(Error("AwsKeyNotAssigned", item.SecretPath, "secret_key", 0, 0))
                    /\ UNCHANGED <<idx, attempts, sleep, idCalls, delays, lastIdentity>>
               ELSE \E session \in {"ok", "err"} :
                       IF session = "err"
                       THEN /\ Fail(Error("AwsSession", <<>>, "", 0, 0))
                            /\ UNCHANGED <<idx, attempts, sleep, idCalls, delays,
                                           lastIdentity>>
                       ELSE /\ pc' = "identity"
                            /\ attempts' = RetryAttempts
                            /\ sleep' = RetrySleep
                            /\ idCalls' = 0
                            /\ delays' = <<>>
                            /\ lastIdentity' = "none"
                            /\ UNCHANGED <<idx, err>>

\* one call of the function retried, and what retry does with its answer
GetCallerIdentity ==
    /\ pc = "identity"
    /\ UNCHANGED <<config, secretMountTypes, secretItems, method, stdout, result,
                   calls, lastResp, delays>>
    /\ \E outcome \in IdentityOutcomes :
        LET next == Retry(Validate(outcome), attempts)
        IN /\ lastIdentity' = outcome
           /\ idCalls' = idCalls + 1
           /\ IF next = "return nil"
              THEN /\ pc' = "activate"
                   /\ idx' = idx + 1
                   /\ attempts' = 0
                   /\ sleep' = 0
                   /\ UNCHANGED err
              ELSE IF next = "sleep"
              THEN /\ pc' = "sleep"
                   /\ attempts' = attempts - 1
                   /\ UNCHANGED <<idx, err, sleep>>
              ELSE /\ Fail(Error("AwsNotActive", <<>>, "", 0, 0))
                   /\ attempts' = 0
                   /\ sleep' = 0
                   /\ UNCHANGED idx

\* Sleep with the same sleep handed to the next call of retry
SleepFixed ==
    /\ pc = "sleep"
    /\ UNCHANGED <<config, secretMountTypes, secretItems, method, stdout, result,
                   calls, lastResp, idx, err, attempts, idCalls, lastIdentity, sleep>>
    /\ delays' = Append(delays, sleep)
    /\ pc' = "identity"

\* retry, lines 454-455: the sleep, then the call of retry with twice the sleep
Sleep ==
    /\ pc = "sleep"
    /\ UNCHANGED <<config, secretMountTypes, secretItems, method, stdout, result,
                   calls, lastResp, idx, err, attempts, idCalls, lastIdentity>>
    /\ delays' = Append(delays, sleep)
    /\ sleep' = 2 * sleep
    /\ pc' = "identity"

\* the orders a range over a map with these keys may visit them in
RECURSIVE Orders(_)
Orders(S) ==
    IF S = {} THEN {<<>>}
    ELSE UNION {{<<x>> \o o : o \in Orders(S \ {x})} : x \in S}

\* one line, export NAME='VALUE', of DisplayEnvExports (line 257), or one entry,
\* NAME=VALUE, of GetEnvs (line 277): its name and its text after the "="
Line(item, envName) ==
    [name |-> envName, value |-> EscapeQuotes(item.secretMapValues[envName])]

ItemLines(item, order) == [i \in 1..Len(order) |-> Line(item, order[i])]

\* Outputs with the last request first
RECURSIVE OutputsLastFirst(_)
OutputsLastFirst(items) ==
    IF items = <<>> THEN {<<>>}
    ELSE {rest \o ItemLines(Head(items), o) :
            o \in Orders(DOMAIN Head(items).secretMapValues),
            rest \in OutputsLastFirst(Tail(items))}

\* lines 252-259 and 273-279: the lines of all the items
RECURSIVE Outputs(_)
Outputs(items) ==
    IF items = <<>> THEN {<<>>}
    ELSE {ItemLines(Head(items), o) \o rest :
            o \in Orders(DOMAIN Head(items).secretMapValues),
            rest \in Outputs(Tail(items))}

\* DisplayEnvExports, lines 252-261, and GetEnvs, lines 271-281
Emit ==
    /\ pc = "loaded"
    /\ UNCHANGED <<config, secretMountTypes, secretItems, method, calls, lastResp,
                   idx, err, attempts, sleep, idCalls, delays, lastIdentity>>
    /\ pc' = "done"
    /\ \E out \in Outputs(secretItems) :
        IF method = "DisplayEnvExports"
        THEN /\ stdout' = stdout \o out
             /\ UNCHANGED result
        ELSE /\ result' = out
             /\ UNCHANGED stdout

Next ==
    \/ LoadSecrets
    \/ FetchNext
    \/ ReadMetadata
    \/ ReadWithData
    \/ Read
    \/ Renew
    \/ ActivateNext
    \/ GetCallerIdentity
    \/ Sleep
    \/ Emit

Spec == Init /\ [][Next]_vars

----------------------------------------------------------------------------
\* The exporter alone: DisplayEnvExports and GetEnvs once loadSecrets has
\* returned nil, with one request fetched from the generic mount

\* fmt.Printf("export %s='%s'\n", ...): the text of a line, without its newline
ExportLine(line) ==
    <<"e", "x", "p", "o", "r", "t", " ">> \o line.name \o <<"=", "'">>
        \o line.value \o <<"'">>

\* the values of the key dbHost: every string of quotes and letters up to MaxLen
ExportValues == UNION {SeqsOf({"'", "\"", "a"}, n) : n \in 0..MaxLen}

\* the request of the document <<Obj(SecretApp, 0, 0, SetDb2)>>, fetched
Loaded(value) ==
    LET data == [dbHost |-> Str(value), dbUser |-> Plain]
        item == UnmarshalItem(Obj(SecretApp, 0, 0, SetDb2))
    IN [item EXCEPT !.mount = "generic",
                    !.hasSecret = TRUE,
                    !.secret = Secret(FALSE, TRUE, data).secret,
                    !.secretMapValues = MapValues(item, data, DOMAIN item.SecretMaps)]

InitExport ==
    /\ config = [kind |-> "items", objs |-> <<Obj(SecretApp, 0, 0, SetDb2)>>]
    /\ secretMountTypes = StoreMounts
    /\ \E value \in ExportValues :
          /\ secretItems = <<Loaded(value)>>
          /\ lastResp = NoResp
    /\ method \in {"DisplayEnvExports", "GetEnvs"}
    /\ pc = "loaded"
    /\ idx = 2
    /\ err = NoError
    /\ stdout = <<>>
    /\ result = <<>>
    /\ calls = <<Call("ListMounts", 0, <<>>, 0, "", 0),
                 Call("Read", 1, SecretApp, 0, "", 0)>>
    /\ attempts = 0
    /\ sleep = 0
    /\ idCalls = 0
    /\ delays = <<>>
    /\ lastIdentity = "none"

NextExport == Emit

SpecExport == InitExport /\ [][NextExport]_vars

----------------------------------------------------------------------------
\* One VaultToEnvs value whose methods are called up to MaxCalls times, on a
\* document of one request

RepeatConfigs ==
    {[kind |-> "items", objs |-> <<r>>] :
        r \in {Obj(KvApp, 0, -2, SetDb), Obj(AwsCreds, 10, 0, SetAws),
               Obj(SecretApp, 0, 0, SetDb2)}}

InitRepeat ==
    /\ Init
    /\ config \in RepeatConfigs

\* the caller calls DisplayEnvExports or GetEnvs again once a call has returned
\* nil: v.secretItems and what was printed stay as they are
CallAgain ==
    /\ pc = "done"
    /\ Len(secretItems) < MaxCalls * Len(config.objs)
    /\ pc' = "idle"
    /\ method' \in {"DisplayEnvExports", "GetEnvs"}
    /\ idx' = 0
    /\ result' = <<>>
    /\ lastResp' = NoResp
    /\ idCalls' = 0
    /\ delays' = <<>>
    /\ lastIdentity' = "none"
    /\ UNCHANGED <<config, secretMountTypes, secretItems, err, stdout, calls,
                   attempts, sleep>>

NextRepeat ==
    \/ Next
    \/ CallAgain

SpecRepeat == InitRepeat /\ [][NextRepeat]_vars

----------------------------------------------------------------------------
\* What the claims are stated with

Outcome == pc \in {"done", "error", "panic"}

AtItem == idx \in 1..Len(secretItems)
Cur == secretItems[idx]

LastCall == calls[Len(calls)]

\* the calls of the store made for item i
CallsOf(i, op) == {k \in 1..Len(calls) : calls[k].item = i /\ calls[k].op = op}

\* the selector is a whole number
Integral(v) == v % 2 = 0

\* the versions of a versions map that are neither deleted nor destroyed
Live(m) == {v \in DOMAIN m : m[v].deletion_time = "" /\ ~m[v].destroyed}

\* the versions with at least n newer versions in the map
Behind(m, n) == {v \in DOMAIN m : Cardinality({w \in DOMAIN m : w > v}) >= n}

Newest(S) == CHOOSE x \in S : \A y \in S : y <= x

\* the metadata read of the current item has just been answered with a versions map
Resolving == lastResp.kind = "versions"

\* [A-Za-z_][A-Za-z0-9_]*
Upper == {"A", "B", "C", "D", "E", "F", "G", "H", "I", "J", "K", "L", "M",
          "N", "O", "P", "Q", "R", "S", "T", "U", "V", "W", "X", "Y", "Z"}
Lower == {"a", "b", "c", "d", "e", "f", "g", "h", "i", "j", "k", "l", "m",
          "n", "o", "p", "q", "r", "s", "t", "u", "v", "w", "x", "y", "z"}
Digit == {"0", "1", "2", "3", "4", "5", "6", "7", "8", "9"}
ValidName(name) ==
    /\ Len(name) >= 1
    /\ name[1] \in Upper \cup Lower \cup {"_"}
    /\ \A k \in 2..Len(name) : name[k] \in Upper \cup Lower \cup Digit \cup {"_"}

----------------------------------------------------------------------------
\* C1: whenever a step of a run fails, the run returns an error and has emitted
\* no line; lines are emitted only by a run in which every request passed.
C1_FailureReturnsErrorWithoutOutput ==
    /\ pc \in {"error", "panic"} =>
          /\ pc = "error"
          /\ err # NoError
          /\ stdout = <<>>
          /\ result = <<>>
    /\ (stdout # <<>> \/ result # <<>>) => pc = "done"

\* C2 as stated: for a negative whole selector s the walk starts at the |s|-th
\* newest version (-1 is the newest) and takes the first live version from there
\* toward the older ones.
C2_StartsAtNewest ==
    (Resolving /\ Cur.Version < 0 /\ Integral(Cur.Version)) =>
        LET m == lastResp.versions
            n == (-Cur.Version) \div 2
            reachable == Live(m) \cap Behind(m, n - 1)
        IN IF reachable = {} THEN pc = "error"
           ELSE pc = "readWithData" /\ Cur.effectiveVersion = Newest(reachable)

\* C2 as amended: for a negative whole selector s the walk starts at the version
\* with |s| newer versions (-1 is the second-newest) and takes the first live
\* version from there toward the older ones.
C2_StartsBehindNewest ==
    (Resolving /\ Cur.Version < 0 /\ Integral(Cur.Version)) =>
        LET m == lastResp.versions
            n == (-Cur.Version) \div 2
            reachable == Live(m) \cap Behind(m, n)
        IN IF reachable = {} THEN pc = "error"
           ELSE pc = "readWithData" /\ Cur.effectiveVersion = Newest(reachable)

\* offset -1 with three versions, the newest live and the second-newest destroyed:
\* the oldest is chosen
C2_Witness ==
    /\ Resolving
    /\ pc = "readWithData"
    /\ Cur.Version = -2
    /\ DOMAIN lastResp.versions = {1, 2, 3}
    /\ Live(lastResp.versions) = {1, 3}
    /\ lastResp.versions[2].destroyed
    /\ Cur.effectiveVersion = 1

\* C3: the version read for selector -N is the version N behind the newest or,
\* when that one is deleted or destroyed, the next older one that is neither: the
\* data read never names a deleted or destroyed version.
C3_ReadsLiveVersionBehind ==
    [][(pc = "readWithData" /\ Resolving /\ Integral(Cur.Version)) =>
          LET m == lastResp.versions
              n == (-Cur.Version) \div 2
              read == calls'[Len(calls')]
          IN /\ read.op = "ReadWithData"
             /\ read.item = idx
             /\ read.version \in Live(m) \cap Behind(m, n)
             /\ \A w \in Live(m) \cap Behind(m, n) : w <= read.version]_vars

\* selector -1, the version one behind the newest deleted (not destroyed): the
\* read is about to name the next older version
C3_Witness ==
    /\ pc = "readWithData"
    /\ Resolving
    /\ Cur.Version = -2
    /\ DOMAIN lastResp.versions = 1..MaxVer
    /\ lastResp.versions[MaxVer - 1].deletion_time # ""
    /\ ~lastResp.versions[MaxVer - 1].destroyed
    /\ Cur.effectiveVersion < MaxVer - 1

\* C4: for a whole selector s >= 0 the data read carries version = s, and no
\* metadata read is made for the request.
C4_NonNegativeVerbatim ==
    \A k \in 1..Len(calls) :
        (/\ calls[k].op = "ReadWithData"
         /\ secretItems[calls[k].item].Version >= 0
         /\ Integral(secretItems[calls[k].item].Version)) =>
            /\ 2 * calls[k].version = secretItems[calls[k].item].Version
            /\ CallsOf(calls[k].item, "ReadMetadata") = {}

\* selector 2 is read as version 2, selector 0 as version 0
C4_Witness ==
    /\ Len(calls) >= 2
    /\ LastCall.op = "ReadWithData"
    /\ LastCall.version = 2
    /\ secretItems[LastCall.item].Version = 4

\* C5: when no version at or behind the start of the walk is live (too few
\* versions, none at all, or all of them deleted or destroyed), the run returns
\* the version-not-found error with the selector and the path, nothing is indexed
\* out of range, and no data read is made for the request.
C5_ExhaustedWalkFails ==
    (Resolving /\ Cur.Version < 0) =>
        LET m == lastResp.versions
            n == (-Cur.Version) \div 2
        IN /\ pc # "panic"
           /\ Live(m) \cap Behind(m, n) = {} =>
                 /\ pc = "error"
                 /\ err.kind = "VersionNotFound"
                 /\ err.num = Cur.Version
                 /\ err.path = Cur.SecretPath
                 /\ CallsOf(idx, "ReadWithData") = {}

\* selector -1 with two versions, the newest live and the older one deleted
C5_Witness ==
    /\ Resolving
    /\ Cur.Version = -2
    /\ DOMAIN lastResp.versions = {2, 3}
    /\ Live(lastResp.versions) = {3}
    /\ pc = "error"
    /\ err.kind = "VersionNotFound"

\* the renewal of the current lease check has been answered with a lease
Renewed == lastResp.kind = "lease"
LeaseRejected == pc = "error" /\ err.kind = "TTLNotMet"
Abs(x) == IF x < 0 THEN -x ELSE x

\* C6 as stated: the lease check fails exactly when the granted duration differs
\* from the requested one by more than 5 seconds, in either direction.
C6_SymmetricTolerance ==
    Renewed => (LeaseRejected <=> Abs(LastCall.ttl - lastResp.LeaseDuration) > 5)

\* C6 as amended: the lease check fails exactly when the granted duration is more
\* than 5 seconds shorter than the requested one (5 shorter passes, 6 shorter
\* fails with the desired and the actual duration, any longer duration passes).
C6_ShortfallTolerance ==
    Renewed =>
        /\ LeaseRejected <=> LastCall.ttl - lastResp.LeaseDuration > 5
        /\ LeaseRejected => err.num = LastCall.ttl /\ err.actual = lastResp.LeaseDuration

\* a lease 6 seconds longer than requested is accepted
C6_Witness ==
    /\ Renewed
    /\ lastResp.LeaseDuration = LastCall.ttl + 6
    /\ pc = "fetch"

\* C7: an identity call that fails with anything but InvalidClientTokenId ends
\* the poll at once with an error: no sleep and no further call follow it.
C7_FatalFailureEndsPolling ==
    lastIdentity \in {"AccessDenied", "notAwsErr"} =>
        pc = "error" /\ err.kind = "AwsNotActive"

\* C8: a request whose first path segment is no mount makes the run return a
\* classification error, and no read is made for it.
C8_UnknownMountIsReported ==
    (/\ AtItem
     /\ pc \notin {"idle", "fetch", "activate", "identity", "sleep", "loaded", "done"}
     /\ Cur.SecretPath # <<"">>
     /\ DOMAIN Cur.SecretMaps # {}
     /\ Cur.SecretPath[1] \notin DOMAIN secretMountTypes) =>
        /\ pc = "error"
        /\ err.kind = "Classification"
        /\ \A k \in 1..Len(calls) : calls[k].item # idx

\* the names of the mapping entries of the document, request by request, entry
\* by entry
RECURSIVE DocumentNames(_)
DocumentNames(objs) ==
    IF objs = <<>> THEN <<>>
    ELSE [k \in 1..Len(Head(objs).set) |-> Head(objs).set[k][1]]
         \o DocumentNames(Tail(objs))

Names(lines) == [k \in 1..Len(lines) |-> lines[k].name]

\* C9 as stated: the lines come in request order and, within a request, in the
\* order of its mapping entries.
C9_DocumentOrder ==
    pc = "done" =>
        Names(IF method = "DisplayEnvExports" THEN stdout ELSE result)
            = DocumentNames(config.objs)

\* the number of lines of the requests before request i
RECURSIVE LinesBefore(_)
LinesBefore(i) ==
    IF i <= 1 THEN 0
    ELSE LinesBefore(i - 1) + Cardinality(DOMAIN secretItems[i - 1].SecretMaps)

\* C9 as amended: the lines come in request order, each request giving one line
\* for each of its mapping entries, in no particular order within the request;
\* nothing is sorted across requests and a name two requests share is emitted
\* for both.
C9_RequestOrder ==
    pc = "done" =>
        LET out == IF method = "DisplayEnvExports" THEN stdout ELSE result
        IN /\ Len(out) = LinesBefore(Len(secretItems) + 1)
           /\ \A i \in 1..Len(secretItems) :
                LET item == secretItems[i]
                    block == (LinesBefore(i) + 1)..LinesBefore(i + 1)
                IN /\ {out[k].name : k \in block} = DOMAIN item.SecretMaps
                   /\ \A k \in block :
                        out[k].value = EscapeQuotes(item.secretMapValues[out[k].name])

\* two requests that share a name, the first printed against the order of its
\* entries in the document
C9_Witness ==
    /\ pc = "done"
    /\ method = "DisplayEnvExports"
    /\ Len(secretItems) = 2
    /\ Names(stdout) = <<DbHost, DbUser, DbHost>>
    /\ DocumentNames(config.objs) = <<DbUser, DbHost, DbHost>>

\* C10: a name that does not match [A-Za-z_][A-Za-z0-9_]* makes the load fail
\* with a validation error, so no line carries such a name.
C10_NamesAreValidated ==
    /\ \A k \in 1..Len(stdout) : ValidName(stdout[k].name)
    /\ \A k \in 1..Len(result) : ValidName(result[k].name)
    /\ (/\ AtItem
        /\ pc \notin {"idle", "fetch"}
        /\ \E n \in DOMAIN Cur.SecretMaps : ~ValidName(n)) =>
            pc = "error" /\ err.kind = "Validation"

----------------------------------------------------------------------------
\* the read of a secret has been answered with a secret; the item it was read for
Fetched == lastResp.kind = "secret"
FetchedItem == secretItems[LastCall.item]

\* every mapping entry of the item has its value
Complete(item) == DOMAIN item.secretMapValues = DOMAIN item.SecretMaps

\* C11: a request with a TTL whose secret, fetched with all its keys, is not
\* renewable makes the run return the TTL-on-static-secret error with the path,
\* and no renewal is ever called for the request; on a kv mount and on any other.
C11_StaticSecretWithTTLFails ==
    (/\ Fetched
     /\ Complete(FetchedItem)
     /\ FetchedItem.TTL # 0
     /\ ~lastResp.secret.Renewable) =>
        /\ pc = "error"
        /\ err.kind = "TTLOnStatic"
        /\ err.path = FetchedItem.SecretPath
        /\ CallsOf(LastCall.item, "Renew") = {}

\* a kv request with ttl 10 whose secret is not renewable
C11_Witness ==
    /\ Fetched
    /\ LastCall.op = "ReadWithData"
    /\ Complete(FetchedItem)
    /\ FetchedItem.TTL = 10
    /\ ~lastResp.secret.Renewable
    /\ pc = "error"
    /\ err.kind = "TTLOnStatic"

\* C12: a renewal is called for a request exactly when its TTL is not 0 and the
\* secret fetched for it is renewable; the call carries the lease identifier of
\* the fetched secret and the TTL as the increment, and is made once.
C12_RenewalIffTTLAndRenewable ==
    /\ \A k \in 1..Len(calls) :
          calls[k].op = "Renew" =>
             LET item == secretItems[calls[k].item]
             IN /\ item.TTL # 0
                /\ item.hasSecret
                /\ item.secret.Renewable
                /\ calls[k].ttl = item.TTL
                /\ calls[k].lease = item.secret.LeaseID
                /\ Cardinality(CallsOf(calls[k].item, "Renew")) = 1
    /\ \A i \in 1..Len(secretItems) :
          LET item == secretItems[i]
          IN (/\ item.hasSecret
              /\ Complete(item)
              /\ item.TTL # 0
              /\ item.secret.Renewable
              /\ ~(pc = "renew" /\ idx = i)) => CallsOf(i, "Renew") # {}

\* the lease of aws credentials renewed to 10 seconds, and the run goes on
C12_Witness ==
    /\ Len(calls) > 0
    /\ LastCall.op = "Renew"
    /\ LastCall.ttl = 10
    /\ LastCall.lease = "lease"
    /\ secretItems[LastCall.item].mount = "aws"
    /\ lastResp.kind = "lease"
    /\ pc = "fetch"

\* C13: a request with a selector other than 0 on a mount that is not kv makes
\* the run return the version-on-static-secret error; nothing is read for it.
C13_VersionOnStaticFails ==
    [][(/\ pc = "fetch"
        /\ AtItem
        /\ Cur.SecretPath # <<"">>
        /\ DOMAIN Cur.SecretMaps # {}
        /\ MountOf(Cur.SecretPath) \notin {NoMount, "kv"}
        /\ Cur.Version # 0) =>
           /\ pc' = "error"
           /\ err'.kind = "VersionOnStatic"
           /\ err'.path = Cur.SecretPath
           /\ calls' = calls
           /\ \A k \in 1..Len(calls) : calls[k].item # idx]_vars

\* selector 0.5 on a generic mount
C13_Witness ==
    /\ pc = "error"
    /\ err.kind = "VersionOnStatic"
    /\ AtItem
    /\ Cur.mount = "generic"
    /\ Cur.Version = 1
    /\ Len(calls) = 1

\* the store keys of the mapping that the data lacks
AbsentKeys(item, data) ==
    {item.SecretMaps[n] : n \in DOMAIN item.SecretMaps} \ DOMAIN data
\* every value the mapping names, when the data has it, is a string
AllStrings(item, data) ==
    \A n \in DOMAIN item.SecretMaps :
        item.SecretMaps[n] \in DOMAIN data => data[item.SecretMaps[n]].isString

\* C14: an absent response, an absent "data" object on a kv mount, and an absent
\* store key each make the run return an error with the path (and the key); the
\* second loop is reached only with every value of every request taken from its
\* secret.  (Stated for secrets whose requested values are strings.)
C14_AbsentIsFetchError ==
    /\ (/\ Len(calls) > 0
        /\ LastCall.op \in {"Read", "ReadWithData"}
        /\ lastResp.kind = "nil") =>
           /\ pc = "error"
           /\ err.kind = "SecretNotFound"
           /\ err.path = FetchedItem.SecretPath
    /\ Fetched =>
          LET item == FetchedItem
              secret == lastResp.secret
          IN /\ (LastCall.op = "ReadWithData" /\ ~secret.hasData) =>
                   /\ pc = "error"
                   /\ err.kind = "NoData"
                   /\ err.path = item.SecretPath
             /\ (/\ LastCall.op = "Read" \/ secret.hasData
                 /\ AbsentKeys(item, secret.Data) # {}
                 /\ AllStrings(item, secret.Data)) =>
                   /\ pc = "error"
                   /\ err.kind = "KeyNotFound"
                   /\ err.key \in AbsentKeys(item, secret.Data)
                   /\ err.path = item.SecretPath
    /\ pc \in {"activate", "identity", "sleep", "loaded", "done"} =>
          \A i \in 1..Len(secretItems) :
             LET item == secretItems[i]
             IN /\ item.hasSecret
                /\ Complete(item)
                /\ \A n \in DOMAIN item.SecretMaps :
                      /\ item.SecretMaps[n] \in DOMAIN item.secret.Data
                      /\ item.secretMapValues[n] = item.secret.Data[item.SecretMaps[n]].chars

\* a kv secret whose "data" object lacks the key of the mapping
C14_Witness ==
    /\ Fetched
    /\ LastCall.op = "ReadWithData"
    /\ lastResp.secret.hasData
    /\ AbsentKeys(FetchedItem, lastResp.secret.Data) = {"dbHost"}
    /\ pc = "error"
    /\ err.kind = "KeyNotFound"
    /\ err.key = "dbHost"

----------------------------------------------------------------------------
\* C15: a poll makes at most 20 identity calls; the k-th sleep lasts 2^(k-1)
\* seconds (1, 2, 4, ...); there is one sleep between two calls, none before the
\* first call and none after the last.
C15_BoundedDoublingBackoff ==
    /\ idCalls <= 20
    /\ \A k \in 1..Len(delays) : delays[k] = 2 ^ (k - 1)
    /\ Len(delays) = IF pc = "identity" THEN idCalls
                     ELSE IF idCalls = 0 THEN 0
                     ELSE idCalls - 1

\* a poll of 20 calls: 19 sleeps, the last of 2^18 seconds
C15_Witness ==
    /\ idCalls = 20
    /\ Len(delays) = 19
    /\ delays[1] = 1
    /\ delays[19] = 262144
    /\ pc \notin {"identity", "sleep"}

\* C16: an identity call that succeeds ends the poll: no call and no sleep of the
\* poll follows it; a success at the first call leaves one call and no sleep.
C16_SuccessEndsPolling ==
    lastIdentity = "ok" =>
        /\ pc \notin {"identity", "sleep"}
        /\ attempts = 0
        /\ Len(delays) = idCalls - 1

\* credentials valid at the first call
C16_Witness ==
    /\ lastIdentity = "ok"
    /\ idCalls = 1
    /\ delays = <<>>
    /\ pc = "activate"

\* C17: an InvalidClientTokenId at a call before the 20th is followed by a sleep
\* and another call; at the 20th call it ends the poll and the run returns the
\* not-active-within-set-duration error.
C17_TransientRetriedUntilTimeout ==
    lastIdentity = "InvalidClientTokenId" =>
        IF idCalls < 20
        THEN /\ pc \in {"sleep", "identity"}
             /\ attempts = 20 - idCalls
        ELSE /\ idCalls = 20
             /\ pc = "error"
             /\ err.kind = "AwsNotActive"

\* the 20th call answered InvalidClientTokenId
C17_Witness ==
    /\ lastIdentity = "InvalidClientTokenId"
    /\ idCalls = 20
    /\ pc = "error"
    /\ err.kind = "AwsNotActive"

\* the store keys of the credentials that no entry of the mapping names
UnmappedKeys(item) ==
    {"access_key", "secret_key"} \ {item.SecretMaps[n] : n \in DOMAIN item.SecretMaps}

\* C18: for a request on the aws mount whose mapping names no access_key or no
\* secret_key, the second loop returns the key-not-assigned error with the path
\* and a key (one the mapping lacks, when no mapped value is empty); no session
\* is made and no identity call.
C18_UnmappedCredentialKeyFails ==
    [][(/\ pc = "activate"
        /\ AtItem
        /\ Cur.mount = "aws"
        /\ UnmappedKeys(Cur) # {}) =>
           /\ pc' = "error"
           /\ err'.kind = "AwsKeyNotAssigned"
           /\ err'.key \in {"access_key", "secret_key"}
           /\ (\A n \in DOMAIN Cur.secretMapValues : Cur.secretMapValues[n] # <<>>)
                 => err'.key \in UnmappedKeys(Cur)
           /\ err'.path = Cur.SecretPath
           /\ idCalls' = idCalls
           /\ attempts' = 0]_vars

\* aws credentials mapped for access_key alone
C18_Witness ==
    /\ pc = "error"
    /\ err.kind = "AwsKeyNotAssigned"
    /\ err.key = "secret_key"
    /\ AtItem
    /\ Cur.mount = "aws"
    /\ Cur.hasSecret
    /\ UnmappedKeys(Cur) = {"secret_key"}
    /\ idCalls = 0

\* the place of a store call among the calls of one request
Rank(op) ==
    CASE op = "ListMounts" -> 0
      [] op = "ReadMetadata" -> 1
      [] op \in {"ReadWithData", "Read"} -> 2
      [] op = "Renew" -> 3

\* the request has been fetched and its lease checked
Resolved(i) ==
    /\ secretItems[i].hasSecret
    /\ Complete(secretItems[i])
    /\ secretItems[i].TTL # 0 => CallsOf(i, "Renew") # {}

\* C19: the store calls come request by request (metadata read, read, renewal,
\* each at most once) and none comes after a later request's; the identity calls
\* are made in the second loop, for an aws request, with every request fetched
\* and lease-checked, and the second loop makes no store call.
C19_Sequential ==
    /\ [](/\ \A j, k \in 1..Len(calls) :
               j < k => /\ calls[j].item <= calls[k].item
                        /\ calls[j].item = calls[k].item =>
                              Rank(calls[j].op) < Rank(calls[k].op)
          /\ pc \in {"identity", "sleep"} =>
               /\ AtItem
               /\ Cur.mount = "aws"
               /\ \A i \in 1..Len(secretItems) : Resolved(i)
          /\ lastIdentity # "none" => \A i \in 1..Len(secretItems) : Resolved(i))
    /\ [][(pc \in {"activate", "identity", "sleep"}) => (calls' = calls)]_vars

\* a kv request resolved through its metadata, then aws credentials fetched and
\* renewed, then the poll of the credentials
C19_Witness ==
    /\ pc = "identity"
    /\ idx = 2
    /\ Len(secretItems) = 2
    /\ secretItems[1].mount = "kv"
    /\ secretItems[2].mount = "aws"
    /\ [k \in 1..Len(calls) |-> calls[k].op]
         = <<"ListMounts", "ReadMetadata", "ReadWithData", "Read", "Renew">>
    /\ [k \in 1..Len(calls) |-> calls[k].item] = <<0, 1, 1, 2, 2>>

----------------------------------------------------------------------------
\* the escape sequence: quote, double quote, quote, double quote, quote
EscapeSequence == <<"'", "\"", "'", "\"", "'">>

\* the occurrences of pat in s, counted from the left without overlap
RECURSIVE Count(_, _)
Count(pat, s) ==
    IF Len(s) < Len(pat) THEN 0
    ELSE IF SubSeq(s, 1, Len(pat)) = pat
         THEN 1 + Count(pat, SubSeq(s, Len(pat) + 1, Len(s)))
         ELSE Count(pat, Tail(s))

Quotes(s) == Cardinality({k \in 1..Len(s) : s[k] = "'"})

\* quote removal of the POSIX shell on one word: what the word stands for, with
\* a mark at the end when a quote is left open (no word here holds a dollar sign,
\* a backquote or a newline)
RECURSIVE Unquote(_, _)
Unquote(s, mode) ==
    IF s = <<>> THEN (IF mode = "plain" THEN <<>> ELSE <<"<open quote>">>)
    ELSE LET c == Head(s)
             rest == Tail(s)
         IN IF mode = "single"
            THEN IF c = "'" THEN Unquote(rest, "plain")
                 ELSE <<c>> \o Unquote(rest, "single")
            ELSE IF mode = "double"
            THEN IF c = "\"" THEN Unquote(rest, "plain")
                 ELSE IF c = "\\" /\ rest # <<>> /\ Head(rest) \in {"\"", "\\"}
                 THEN <<Head(rest)>> \o Unquote(Tail(rest), "double")
                 ELSE <<c>> \o Unquote(rest, "double")
            ELSE IF c = "'" THEN Unquote(rest, "single")
                 ELSE IF c = "\"" THEN Unquote(rest, "double")
                 ELSE IF c = "\\" /\ rest # <<>>
                 THEN <<Head(rest)>> \o Unquote(Tail(rest), "plain")
                 ELSE <<c>> \o Unquote(rest, "plain")

\* C20: DisplayEnvExports prints one line export NAME='VALUE' for each value; the
\* line of a value with k single quotes has k escape sequences (counted without
\* overlap), and the shell reads its word back as NAME=value.
C20_ExportRoundTrip ==
    (pc = "done" /\ method = "DisplayEnvExports") =>
        /\ Len(stdout) = Cardinality(DOMAIN secretItems[1].secretMapValues)
        /\ {stdout[k].name : k \in 1..Len(stdout)} = DOMAIN secretItems[1].secretMapValues
        /\ \A k \in 1..Len(stdout) :
              LET value == secretItems[1].secretMapValues[stdout[k].name]
                  text == ExportLine(stdout[k])
              IN /\ Count(EscapeSequence, text) = Quotes(value)
                 /\ Unquote(SubSeq(text, 8, Len(text)), "plain")
                       = stdout[k].name \o <<"=">> \o value

\* a value of two single quotes in a row, then a double quote
C20_Witness ==
    /\ pc = "done"
    /\ method = "DisplayEnvExports"
    /\ secretItems[1].secretMapValues[DbHost] = <<"'", "'", "\"">>
    /\ \E k \in 1..Len(stdout) :
          /\ stdout[k].name = DbHost
          /\ stdout[k].value = EscapeSequence \o EscapeSequence \o <<"\"">>

----------------------------------------------------------------------------
\* C21: a request with an empty path or with no mapping entry makes the first
\* loop return an error with no store call made for it and the item untouched;
\* every store call of a request is for a path that is not empty and a mapping
\* that has an entry.
C21_InvalidRequestNotFetched ==
    /\ [](\A k \in 1..Len(calls) :
             calls[k].item # 0 =>
                /\ secretItems[calls[k].item].SecretPath # <<"">>
                /\ DOMAIN secretItems[calls[k].item].SecretMaps # {})
    /\ [][(/\ pc = "fetch"
           /\ AtItem
           /\ Cur.SecretPath = <<"">> \/ DOMAIN Cur.SecretMaps = {}) =>
              /\ pc' = "error"
              /\ err'.kind = (IF Cur.SecretPath = <<"">> THEN "NoPath" ELSE "NoEnvExports")
              /\ calls' = calls
              /\ secretItems' = secretItems]_vars

\* a request with a path and an empty "set"
C21_Witness ==
    /\ pc = "error"
    /\ err.kind = "NoEnvExports"
    /\ AtItem
    /\ Cur.SecretPath = SecretApp
    /\ DOMAIN Cur.SecretMaps = {}
    /\ Len(calls) = 1

\* C22: an identity call that fails, with an awserr.Error or with any other
\* error, is followed by a sleep and another call or by the return of an error:
\* the poll never ends well on it.
C22_FailedCallNeverActivates ==
    lastIdentity \in {"InvalidClientTokenId", "AccessDenied", "notAwsErr"} =>
        pc \in {"sleep", "identity", "error"}

\* the mapping entries of the document
Entries == Len(DocumentNames(config.objs))

\* C23: however many times the methods are called, v.secretItems holds the
\* requests of the document once, and a call returns one entry for each mapping
\* entry of the document.
C23_CallsAreIdempotent ==
    /\ Len(secretItems) <= Len(config.objs)
    /\ (pc = "done" /\ method = "GetEnvs") => Len(result) = Entries

\* C24: the data path and the metadata path of a kv request have the same
\* segments but the second, "data" in the one and "metadata" in the other.
C24_PathsAddressSameSecret ==
    \A i \in 1..Len(secretItems) :
        LET d == secretItems[i].secretDataPath
            m == secretItems[i].secretMetadataPath
        IN (secretItems[i].mount = "kv" /\ d # <<"">>) =>
              /\ Len(d) = Len(m)
              /\ Len(d) >= 2
              /\ d[1] = m[1]
              /\ d[2] = "data"
              /\ m[2] = "metadata"
              /\ \A k \in 3..Len(d) : d[k] = m[k]

\* C25: a request whose path is not empty and starts with a mount of the store
\* ends resolved or with a returned error: the run never panics on it.
C25_NeverCrashes ==
    (/\ AtItem
     /\ Cur.SecretPath # <<"">>
     /\ Cur.SecretPath[1] \in DOMAIN StoreMounts) => pc # "panic"

====
